---------------------------- MODULE Spec2Model ----------------------------
(***************************************************************************)
(* Model of the latency benchmark service (src/unnamed/part_001, the       *)
(* variant with both connection modes; src/src/index.js is its client-only *)
(* predecessor with the same runBenchmark, buffer and scheduler).          *)
(*                                                                         *)
(* One measurement cycle is one call of runBenchmark: measureLatency runs  *)
(* acquire, ping, bulk query, ten round trips, release/close, and returns  *)
(* a measurement that runBenchmark pushes on the results buffer.  Every    *)
(* await of the source is a step boundary; code between two awaits runs    *)
(* without interleaving (single JavaScript thread).                        *)
(***************************************************************************)
EXTENDS Integers, Sequences, FiniteSets, TLC

\* Capacity of the results buffer.  The source keeps 400 (part_001:255); the
\* model keeps a small buffer so that eviction happens within MaxCycles.
MaxResults == 2

\* Number of cycles the scheduler starts in a behaviour (initial one included).
MaxCycles == MaxResults + 1

\* Largest number of cycles the model lets overlap: the timer of the source has
\* no such limit, the model stops ticking at this many cycles in flight.
MaxInFlight == 2

\* Largest POOL_SIZE the configuration is drawn from.
MaxPoolSize == 2

\* The round-trip loop: for (let i = 0; i < 10; i++).
RoundTrips == 10

\* The row count the bulk query asks for: generate_series(1, 1000).
ExpectedRows == 1000

\* Last value of the model's clock.  One tick of the clock is one millisecond
\* of process.hrtime.bigint().
MaxTime == 4

\* Last value of the model's wall clock, the clock of new Date(), in
\* milliseconds.
MaxStamp == 2

Cycles == 1..MaxCycles

\* What the database does with a request: answers it, answers with an error,
\* or does not answer at all.
DbStates == {"healthy", "failing", "silent"}

VARIABLES
    envUsePool,     \* process.env.USE_POOL: a string, or "unset" (undefined)
    USE_POOL,       \* process.env.USE_POOL === 'true'
    POOL_SIZE,      \* parseInt(process.env.POOL_SIZE || '10')
    DATABASE_URL,   \* "set" or "unset" (undefined)
    db,             \* environment: current behaviour of the database
    boot,           \* position of the app.listen callback
    initConn,       \* the client of initializePool's test: none/held/released
    armed,          \* setInterval(runBenchmark, ...) has been installed
    started,        \* number of runBenchmark calls made so far
    pc,             \* per cycle: position inside runBenchmark/measureLatency
    i,              \* per cycle: loop variable of the round-trip loop
    conn,           \* per cycle: its connection: none/held/released
    results,        \* the results array
    poolTotal,      \* pool.totalCount
    poolIdle,       \* pool.idleCount
    unhandled,      \* an error left measureLatency as an exception
    appended,       \* history: every value passed to results.push, in order
    clean,          \* history: the cycle started last has run alone and
                    \* against a healthy database since its start
    now,            \* environment: process.hrtime.bigint(), in milliseconds
    wall,           \* environment: the clock of new Date(), in milliseconds
    dbRows,         \* environment: the row count the bulk query comes back with
    t,              \* per cycle: start, connectTime/acquireTime, pingTime,
                    \* longQueryTime, multiRoundTripTime, queryResult.rowCount
    response        \* the last value a function or an HTTP handler returned

vars == <<envUsePool, USE_POOL, POOL_SIZE, DATABASE_URL, db, boot, initConn, armed,
          started, pc, i, conn, results, poolTotal, poolIdle, unhandled,
          appended, clean, now, wall, dbRows, t, response>>

\* What no step of a benchmark cycle changes: the clocks, the database's
\* answer, and what a caller has been handed.
env == <<now, wall, dbRows, response>>

config == <<envUsePool, USE_POOL, POOL_SIZE, DATABASE_URL>>

\* Number(d) / 1e6 for a difference d of two clock values.  Latencies are
\* kept as whole hundredths of a millisecond, the resolution of toFixed(2),
\* so that the division by 10 of avgRoundTripMs stays exact.
Ms(d) == d * 100

\* The clock values and the row count of a cycle before it has taken any.
NoTimes ==
    [start |-> 0, acquireTime |-> 0, pingTime |-> 0, longQueryTime |-> 0,
     multiRoundTripTime |-> 0, rowCount |-> 0,
     poolStats |-> [total |-> 0, idle |-> 0, waiting |-> 0]]

\* Variant: the total runs to the moment the measurement is built.
SampleTotalToNow(c, l) ==
    IF USE_POOL
    THEN [cycle |-> c, timestamp |-> wall, mode |-> "pool",
          poolAcquireMs |-> Ms(l.acquireTime - l.start),
          pingLatencyMs |-> Ms(l.pingTime - l.acquireTime),
          longQueryLatencyMs |-> Ms(l.longQueryTime - l.pingTime),
          longQueryRows |-> l.rowCount,
          multiRoundTripLatencyMs |->
              Ms(l.multiRoundTripTime - l.longQueryTime),
          avgRoundTripMs |->
              Ms(l.multiRoundTripTime - l.longQueryTime) \div 10,
          queryLatencyMs |-> Ms(l.multiRoundTripTime - l.acquireTime),
          totalLatencyMs |-> Ms(now - l.start),
          poolStats |-> l.poolStats,
          success |-> TRUE]
    ELSE [cycle |-> c, timestamp |-> wall, mode |-> "client",
          connectLatencyMs |-> Ms(l.acquireTime - l.start),
          pingLatencyMs |-> Ms(l.pingTime - l.acquireTime),
          longQueryLatencyMs |-> Ms(l.longQueryTime - l.pingTime),
          longQueryRows |-> l.rowCount,
          multiRoundTripLatencyMs |->
              Ms(l.multiRoundTripTime - l.longQueryTime),
          avgRoundTripMs |->
              Ms(l.multiRoundTripTime - l.longQueryTime) \div 10,
          queryLatencyMs |-> Ms(l.multiRoundTripTime - l.acquireTime),
          totalLatencyMs |-> Ms(now - l.start),
          success |-> TRUE]

\* Variant: the mean is taken over nine round trips.
SampleAvgOfNine(c, l) ==
    IF USE_POOL
    THEN [cycle |-> c, timestamp |-> wall, mode |-> "pool",
          poolAcquireMs |-> Ms(l.acquireTime - l.start),
          pingLatencyMs |-> Ms(l.pingTime - l.acquireTime),
          longQueryLatencyMs |-> Ms(l.longQueryTime - l.pingTime),
          longQueryRows |-> l.rowCount,
          multiRoundTripLatencyMs |->
              Ms(l.multiRoundTripTime - l.longQueryTime),
          avgRoundTripMs |->
              Ms(l.multiRoundTripTime - l.longQueryTime) \div 9,
          queryLatencyMs |-> Ms(l.multiRoundTripTime - l.acquireTime),
          totalLatencyMs |-> Ms(l.multiRoundTripTime - l.start),
          poolStats |-> l.poolStats,
          success |-> TRUE]
    ELSE [cycle |-> c, timestamp |-> wall, mode |-> "client",
          connectLatencyMs |-> Ms(l.acquireTime - l.start),
          pingLatencyMs |-> Ms(l.pingTime - l.acquireTime),
          longQueryLatencyMs |-> Ms(l.longQueryTime - l.pingTime),
          longQueryRows |-> l.rowCount,
          multiRoundTripLatencyMs |->
              Ms(l.multiRoundTripTime - l.longQueryTime),
          avgRoundTripMs |->
              Ms(l.multiRoundTripTime - l.longQueryTime) \div 9,
          queryLatencyMs |-> Ms(l.multiRoundTripTime - l.acquireTime),
          totalLatencyMs |-> Ms(l.multiRoundTripTime - l.start),
          success |-> TRUE]

\* Variant: the ping latency is taken from the start of the cycle.
SamplePingFromStart(c, l) ==
    IF USE_POOL
    THEN [cycle |-> c, timestamp |-> wall, mode |-> "pool",
          poolAcquireMs |-> Ms(l.acquireTime - l.start),
          pingLatencyMs |-> Ms(l.pingTime - l.start),
          longQueryLatencyMs |-> Ms(l.longQueryTime - l.pingTime),
          longQueryRows |-> l.rowCount,
          multiRoundTripLatencyMs |->
              Ms(l.multiRoundTripTime - l.longQueryTime),
          avgRoundTripMs |->
              Ms(l.multiRoundTripTime - l.longQueryTime) \div 10,
          queryLatencyMs |-> Ms(l.multiRoundTripTime - l.acquireTime),
          totalLatencyMs |-> Ms(l.multiRoundTripTime - l.start),
          poolStats |-> l.poolStats,
          success |-> TRUE]
    ELSE [cycle |-> c, timestamp |-> wall, mode |-> "client",
          connectLatencyMs |-> Ms(l.acquireTime - l.start),
          pingLatencyMs |-> Ms(l.pingTime - l.start),
          longQueryLatencyMs |-> Ms(l.longQueryTime - l.pingTime),
          longQueryRows |-> l.rowCount,
          multiRoundTripLatencyMs |->
              Ms(l.multiRoundTripTime - l.longQueryTime),
          avgRoundTripMs |->
              Ms(l.multiRoundTripTime - l.longQueryTime) \div 10,
          queryLatencyMs |-> Ms(l.multiRoundTripTime - l.acquireTime),
          totalLatencyMs |-> Ms(l.multiRoundTripTime - l.start),
          success |-> TRUE]

\* Variant: the row count is taken to be the one asked for.
SampleExpectedRows(c, l) ==
    IF USE_POOL
    THEN [cycle |-> c, timestamp |-> wall, mode |-> "pool",
          poolAcquireMs |-> Ms(l.acquireTime - l.start),
          pingLatencyMs |-> Ms(l.pingTime - l.acquireTime),
          longQueryLatencyMs |-> Ms(l.longQueryTime - l.pingTime),
          longQueryRows |-> ExpectedRows,
          multiRoundTripLatencyMs |->
              Ms(l.multiRoundTripTime - l.longQueryTime),
          avgRoundTripMs |->
              Ms(l.multiRoundTripTime - l.longQueryTime) \div 10,
          queryLatencyMs |-> Ms(l.multiRoundTripTime - l.acquireTime),
          totalLatencyMs |-> Ms(l.multiRoundTripTime - l.start),
          poolStats |-> l.poolStats,
          success |-> TRUE]
    ELSE [cycle |-> c, timestamp |-> wall, mode |-> "client",
          connectLatencyMs |-> Ms(l.acquireTime - l.start),
          pingLatencyMs |-> Ms(l.pingTime - l.acquireTime),
          longQueryLatencyMs |-> Ms(l.longQueryTime - l.pingTime),
          longQueryRows |-> ExpectedRows,
          multiRoundTripLatencyMs |->
              Ms(l.multiRoundTripTime - l.longQueryTime),
          avgRoundTripMs |->
              Ms(l.multiRoundTripTime - l.longQueryTime) \div 10,
          queryLatencyMs |-> Ms(l.multiRoundTripTime - l.acquireTime),
          totalLatencyMs |-> Ms(l.multiRoundTripTime - l.start),
          success |-> TRUE]

\* Variant: the query latency is counted from the start of the cycle.
SampleQueryFromStart(c, l) ==
    IF USE_POOL
    THEN [cycle |-> c, timestamp |-> wall, mode |-> "pool",
          poolAcquireMs |-> Ms(l.acquireTime - l.start),
          pingLatencyMs |-> Ms(l.pingTime - l.acquireTime),
          longQueryLatencyMs |-> Ms(l.longQueryTime - l.pingTime),
          longQueryRows |-> l.rowCount,
          multiRoundTripLatencyMs |->
              Ms(l.multiRoundTripTime - l.longQueryTime),
          avgRoundTripMs |->
              Ms(l.multiRoundTripTime - l.longQueryTime) \div 10,
          queryLatencyMs |-> Ms(l.multiRoundTripTime - l.start),
          totalLatencyMs |-> Ms(l.multiRoundTripTime - l.start),
          poolStats |-> l.poolStats,
          success |-> TRUE]
    ELSE [cycle |-> c, timestamp |-> wall, mode |-> "client",
          connectLatencyMs |-> Ms(l.acquireTime - l.start),
          pingLatencyMs |-> Ms(l.pingTime - l.acquireTime),
          longQueryLatencyMs |-> Ms(l.longQueryTime - l.pingTime),
          longQueryRows |-> l.rowCount,
          multiRoundTripLatencyMs |->
              Ms(l.multiRoundTripTime - l.longQueryTime),
          avgRoundTripMs |->
              Ms(l.multiRoundTripTime - l.longQueryTime) \div 10,
          queryLatencyMs |-> Ms(l.multiRoundTripTime - l.start),
          totalLatencyMs |-> Ms(l.multiRoundTripTime - l.start),
          success |-> TRUE]

\* The measurement built at part_001:144-156 (client) and 207-223 (pool)
\* from the clock values l taken during the cycle.  The timestamp is
\* new Date().toISOString() at millisecond resolution; the cycle field names the cycle that built the measurement.
Sample(c, l) ==
    IF USE_POOL
    THEN [cycle |-> c, timestamp |-> wall, mode |-> "pool",
          poolAcquireMs |-> Ms(l.acquireTime - l.start),
          pingLatencyMs |-> Ms(l.pingTime - l.acquireTime),
          longQueryLatencyMs |-> Ms(l.longQueryTime - l.pingTime),
          longQueryRows |-> l.rowCount,
          multiRoundTripLatencyMs |->
              Ms(l.multiRoundTripTime - l.longQueryTime),
          avgRoundTripMs |->
              Ms(l.multiRoundTripTime - l.longQueryTime) \div 10,
          queryLatencyMs |-> Ms(l.multiRoundTripTime - l.acquireTime),
          totalLatencyMs |-> Ms(l.multiRoundTripTime - l.start),
          poolStats |-> l.poolStats,
          success |-> TRUE]
    ELSE [cycle |-> c, timestamp |-> wall, mode |-> "client",
          connectLatencyMs |-> Ms(l.acquireTime - l.start),
          pingLatencyMs |-> Ms(l.pingTime - l.acquireTime),
          longQueryLatencyMs |-> Ms(l.longQueryTime - l.pingTime),
          longQueryRows |-> l.rowCount,
          multiRoundTripLatencyMs |->
              Ms(l.multiRoundTripTime - l.longQueryTime),
          avgRoundTripMs |->
              Ms(l.multiRoundTripTime - l.longQueryTime) \div 10,
          queryLatencyMs |-> Ms(l.multiRoundTripTime - l.acquireTime),
          totalLatencyMs |-> Ms(l.multiRoundTripTime - l.start),
          success |-> TRUE]

\* Variant: the Failure reports a total latency of 0.
FailureWithTotal(c, msg) ==
    [cycle |-> c, timestamp |-> wall, mode |-> IF USE_POOL THEN "pool" ELSE "client",
     error |-> msg, totalLatencyMs |-> 0, success |-> FALSE]

\* Variant: the Failure does not carry the error's message.
FailureNoMessage(c, msg) ==
    [cycle |-> c, timestamp |-> wall, mode |-> IF USE_POOL THEN "pool" ELSE "client",
     error |-> "unknown", success |-> FALSE]

\* The object built in the catch blocks, part_001:163-168 / 231-236.
Failure(c, msg) ==
    [cycle |-> c, timestamp |-> wall, mode |-> IF USE_POOL THEN "pool" ELSE "client",
     error |-> msg, success |-> FALSE]

\* Cycles that have been started and have not yet pushed their measurement.
InFlight == {c \in Cycles : pc[c] \notin {"idle", "done"}}

CheckedOut == poolTotal - poolIdle

(***************************************************************************)
(* The buffer: results.push(result); if (results.length > 400) shift().    *)
(***************************************************************************)
\* Variant: the new entry is put in front (unshift) and the last is dropped.
PushResultFront(buf, r) ==
    LET pushed == <<r>> \o buf
    IN  IF Len(pushed) > MaxResults
        THEN SubSeq(pushed, 1, MaxResults)
        ELSE pushed

\* Variant: a full buffer is emptied before the new entry is kept.
PushResultClear(buf, r) ==
    LET pushed == Append(buf, r)
    IN  IF Len(pushed) > MaxResults THEN <<r>> ELSE pushed

\* Variant: the shift is left out.
PushResultNoShift(buf, r) == Append(buf, r)

\* Variant: the newest entry is dropped (pop) where the oldest should be.
PushResultPop(buf, r) ==
    LET pushed == Append(buf, r)
    IN  IF Len(pushed) > MaxResults
        THEN SubSeq(pushed, 1, MaxResults)
        ELSE pushed

PushResult(buf, r) ==
    LET pushed == Append(buf, r)
    IN  IF Len(pushed) > MaxResults THEN Tail(pushed) ELSE pushed

(***************************************************************************)
(* Error handling of measureLatencyWithClient / measureLatencyWithPool.    *)
(***************************************************************************)
\* The statements that stand inside the try block (part_001:113-161 and
\* 176-229): the configuration, the acquisition, every query, and the
\* release/close.
\* Variant: client.end() / client.release() stand behind the try block.
CaughtQueriesOnly(step) ==
    step \in {"config", "acquire", "ping", "bulk", "rt"}

Caught(step) ==
    step \in {"config", "acquire", "ping", "bulk", "rt", "end", "release"}

\* measureLatency returns m and runBenchmark goes on behind its await
\* (part_001:251-257): push, then shift when the array has grown past its
\* capacity.  The continuation is a microtask of the same turn of the event
\* loop: no timer, socket or HTTP callback runs between return and push.
\* Variant: runBenchmark pushes successful measurements only.
CompleteSamplesOnly(c, m) ==
    /\ pc' = [pc EXCEPT ![c] = "done"]
    /\ results' = IF m.success THEN PushResult(results, m) ELSE results
    /\ appended' = IF m.success THEN Append(appended, m) ELSE appended

Complete(c, m) ==
    /\ pc' = [pc EXCEPT ![c] = "done"]
    /\ results' = PushResult(results, m)
    /\ appended' = Append(appended, m)

\* An error raised at `step` of cycle c: the catch block returns a Failure;
\* an error outside the try block would reject runBenchmark's promise.
Fail(c, step, msg) ==
    IF Caught(step)
    THEN /\ Complete(c, Failure(c, msg))
         /\ UNCHANGED unhandled
    ELSE /\ pc' = [pc EXCEPT ![c] = "done"]
         /\ UNCHANGED <<results, appended>>
         /\ unhandled' = TRUE

\* The call of measureLatency for cycle c has returned: its local variables
\* (the clock values, queryResult) are gone.
Forget(c) == t' = [t EXCEPT ![c] = NoTimes]

\* runBenchmark() up to its first await: measureLatency picks the mode; the
\* client mode builds its configuration inside the try block, where
\* DATABASE_URL.replace throws when DATABASE_URL is undefined.
StartCycle(c) ==
    /\ started' = c
    /\ clean' = (db = "healthy" /\ InFlight = {})
    /\ IF ~USE_POOL /\ DATABASE_URL = "unset"
       THEN /\ Fail(c, "config", "TypeError")
            /\ Forget(c)
       ELSE /\ pc' = [pc EXCEPT ![c] = "acquire"]
            /\ t' = [t EXCEPT ![c] = [NoTimes EXCEPT !.start = now]]
            /\ UNCHANGED <<results, appended, unhandled>>

\* Variant: any non-empty value of the variable switches the pool on.
ParseUsePoolTruthy(s) == s \notin {"unset", ""}

\* const USE_POOL = process.env.USE_POOL === 'true' (part_001:11).
ParseUsePool(s) == s = "true"

\* The module state after load for a value of process.env.USE_POOL drawn
\* from envValues.
InitWith(envValues) ==
    /\ envUsePool \in envValues
    /\ USE_POOL = ParseUsePool(envUsePool)
    /\ POOL_SIZE \in IF USE_POOL THEN 1..MaxPoolSize ELSE {MaxPoolSize}
    /\ DATABASE_URL \in {"set", "unset"}
    /\ db \in DbStates
    /\ boot = "listening"
    /\ initConn = "none"
    /\ armed = FALSE
    /\ started = 0
    /\ pc = [c \in Cycles |-> "idle"]
    /\ i = [c \in Cycles |-> 0]
    /\ conn = [c \in Cycles |-> "none"]
    /\ results = <<>>
    /\ poolTotal = 0
    /\ poolIdle = 0
    /\ unhandled = FALSE
    /\ appended = <<>>
    /\ clean = FALSE
    /\ now = 0
    /\ wall = 0
    /\ dbRows = ExpectedRows
    /\ t = [c \in Cycles |-> NoTimes]

InitProgram == InitWith({"true", "false"})

\* Nothing has been called yet.
Init ==
    /\ InitProgram
    /\ response = [fn |-> "none"]

(***************************************************************************)
(* Startup: the app.listen callback, part_001:622-639.                     *)
(***************************************************************************)
\* Variant: the timer's first run comes at once, next to the initial run.
ArmTwice ==
    /\ boot' = "armed"
    /\ armed' = TRUE
    /\ started' = 2
    /\ clean' = FALSE
    /\ pc' = [pc EXCEPT ![1] = "acquire", ![2] = "acquire"]
    /\ t' = [t EXCEPT ![1] = [NoTimes EXCEPT !.start = now],
                      ![2] = [NoTimes EXCEPT !.start = now]]
    /\ UNCHANGED <<results, appended, unhandled>>

\* Run the initial benchmark and install the timer (part_001:635-638).
Arm ==
    /\ boot' = "armed"
    /\ armed' = TRUE
    /\ StartCycle(1)

\* USE_POOL false: initializePool does nothing.
ListenClient ==
    /\ boot = "listening"
    /\ ~USE_POOL
    /\ Arm
    /\ UNCHANGED <<config, env, db, initConn, i, conn, poolTotal, poolIdle>>

\* USE_POOL true: initializePool builds the pool; getDbConfig() is called
\* outside any try block, so an undefined DATABASE_URL rejects initializePool
\* and with it the listen callback.
ListenPool ==
    /\ boot = "listening"
    /\ USE_POOL
    /\ boot' = IF DATABASE_URL = "unset" THEN "crashed" ELSE "initConnect"
    /\ UNCHANGED <<config, env, t, db, initConn, armed, started, pc, i, conn,
                   results, poolTotal, poolIdle, unhandled, appended, clean>>

\* const client = await pool.connect() of the pool test (part_001:611).
InitPoolConnect ==
    /\ boot = "initConnect"
    /\ \/ /\ db = "healthy"
          /\ poolTotal' = poolTotal + 1
          /\ initConn' = "held"
          /\ boot' = "initQuery"
       \/ /\ db = "failing"
          /\ boot' = "initDone"
          /\ UNCHANGED <<poolTotal, initConn>>
    /\ UNCHANGED <<config, env, t, db, armed, started, pc, i, conn, results,
                   poolIdle, unhandled, appended, clean>>

\* connectionTimeoutMillis ends a pool.connect() that gets no answer.
InitPoolTimeout ==
    /\ boot = "initConnect"
    /\ db = "silent"
    /\ boot' = "initDone"
    /\ UNCHANGED <<config, env, t, db, initConn, armed, started, pc, i, conn,
                   results, poolTotal, poolIdle, unhandled, appended, clean>>

\* await client.query('SELECT 1'); client.release(); (part_001:612-613); an
\* error goes to the catch block, which only logs.
InitPoolQuery ==
    /\ boot = "initQuery"
    /\ \/ /\ db = "healthy"
          /\ initConn' = "released"
          /\ poolIdle' = poolIdle + 1
       \/ /\ db = "failing"
          /\ UNCHANGED <<initConn, poolIdle>>
    /\ boot' = "initDone"
    /\ UNCHANGED <<config, env, t, db, armed, started, pc, i, conn, results,
                   poolTotal, unhandled, appended, clean>>

\* initializePool has resolved: the listen callback goes on.
InitPoolDone ==
    /\ boot = "initDone"
    /\ Arm
    /\ UNCHANGED <<config, env, db, initConn, i, conn, poolTotal, poolIdle>>

(***************************************************************************)
(* The scheduler: setInterval(runBenchmark, BENCHMARK_INTERVAL).           *)
(***************************************************************************)
\* Variant: the timer goes on only after a successful measurement.
TimerTickAfterSuccess ==
    /\ armed
    /\ started < MaxCycles
    /\ Cardinality(InFlight) < MaxInFlight
    /\ (results = <<>> \/ results[Len(results)].success)
    /\ StartCycle(started + 1)
    /\ UNCHANGED <<config, env, db, boot, initConn, armed, i, conn, poolTotal,
                   poolIdle>>

TimerTick ==
    /\ armed
    /\ started < MaxCycles
    /\ Cardinality(InFlight) < MaxInFlight
    /\ StartCycle(started + 1)
    /\ UNCHANGED <<config, env, db, boot, initConn, armed, i, conn, poolTotal,
                   poolIdle>>

(***************************************************************************)
(* One cycle: measureLatencyWithClient (part_001:110-170) and              *)
(* measureLatencyWithPool (part_001:173-238).                              *)
(***************************************************************************)
\* pool.connect() cannot be served now: no idle client, and either the pool
\* is at its max or the new client's connection gets no answer.
PoolMustWait ==
    /\ poolIdle = 0
    /\ (poolTotal >= POOL_SIZE \/ db = "silent")

\* await client.connect() (part_001:116).
AcquireClient(c) ==
    /\ ~USE_POOL
    /\ pc[c] = "acquire"
    /\ \/ /\ db = "healthy"
          /\ conn' = [conn EXCEPT ![c] = "held"]
          /\ pc' = [pc EXCEPT ![c] = "ping"]
          /\ t' = [t EXCEPT ![c].acquireTime = now]
          /\ UNCHANGED <<results, appended, unhandled>>
       \/ /\ db = "failing"
          /\ Fail(c, "acquire", "connect error")
          /\ Forget(c)
          /\ UNCHANGED conn
    /\ UNCHANGED <<config, env, db, boot, initConn, armed, started, i, poolTotal,
                   poolIdle, clean>>

\* const client = await pool.connect() (part_001:178): an idle client is
\* handed out as it is; otherwise a new client is connected while the pool
\* is below its max (max: POOL_SIZE, part_001:20).
AcquirePool(c) ==
    /\ USE_POOL
    /\ pc[c] = "acquire"
    /\ \/ /\ poolIdle > 0
          /\ poolIdle' = poolIdle - 1
          /\ conn' = [conn EXCEPT ![c] = "held"]
          /\ pc' = [pc EXCEPT ![c] = "ping"]
          /\ t' = [t EXCEPT ![c].acquireTime = now]
          /\ UNCHANGED <<poolTotal, results, appended, unhandled>>
       \/ /\ poolIdle = 0
          /\ poolTotal < POOL_SIZE
          /\ db = "healthy"
          /\ poolTotal' = poolTotal + 1
          /\ conn' = [conn EXCEPT ![c] = "held"]
          /\ pc' = [pc EXCEPT ![c] = "ping"]
          /\ t' = [t EXCEPT ![c].acquireTime = now]
          /\ UNCHANGED <<poolIdle, results, appended, unhandled>>
       \/ /\ poolIdle = 0
          /\ poolTotal < POOL_SIZE
          /\ db = "failing"
          /\ Fail(c, "acquire", "connect error")
          /\ Forget(c)
          /\ UNCHANGED <<poolTotal, poolIdle, conn>>
    /\ UNCHANGED <<config, env, db, boot, initConn, armed, started, i, clean>>

\* Variant: the catch block closes the connection it never got.
AcquireTimeoutReleases(c) ==
    /\ pc[c] = "acquire"
    /\ IF USE_POOL THEN PoolMustWait ELSE db = "silent"
    /\ Fail(c, "acquire", "timeout")
    /\ Forget(c)
    /\ conn' = [conn EXCEPT ![c] = "released"]
    /\ UNCHANGED <<config, env, db, boot, initConn, armed, started, i,
                   poolTotal, poolIdle, clean>>

\* connectionTimeoutMillis: 10000 (part_001:22) ends an acquisition that is
\* not served: "timeout" is the error of the rejected connect().
AcquireTimeout(c) ==
    /\ pc[c] = "acquire"
    /\ IF USE_POOL THEN PoolMustWait ELSE db = "silent"
    /\ Fail(c, "acquire", "timeout")
    /\ Forget(c)
    /\ UNCHANGED <<config, env, db, boot, initConn, armed, started, i, conn,
                   poolTotal, poolIdle, clean>>

\* Variant: the round trips follow the ping at once.
PingSkipsBulk(c) ==
    /\ pc[c] = "ping"
    /\ \/ /\ db = "healthy"
          /\ pc' = [pc EXCEPT ![c] = "rt"]
          /\ t' = [t EXCEPT ![c].pingTime = now]
          /\ UNCHANGED <<results, appended, unhandled>>
       \/ /\ db = "failing"
          /\ Fail(c, "ping", "query error")
          /\ Forget(c)
    /\ UNCHANGED <<config, env, db, boot, initConn, armed, started, i, conn,
                   poolTotal, poolIdle, clean>>

\* await client.query('SELECT 1') (part_001:120 / 182).
Ping(c) ==
    /\ pc[c] = "ping"
    /\ \/ /\ db = "healthy"
          /\ pc' = [pc EXCEPT ![c] = "bulk"]
          /\ t' = [t EXCEPT ![c].pingTime = now]
          /\ UNCHANGED <<results, appended, unhandled>>
       \/ /\ db = "failing"
          /\ Fail(c, "ping", "query error")
          /\ Forget(c)
    /\ UNCHANGED <<config, env, db, boot, initConn, armed, started, i, conn,
                   poolTotal, poolIdle, clean>>

\* const queryResult = await client.query(longQuery) (part_001:133 / 195);
\* the loop starts with i = 0.
Bulk(c) ==
    /\ pc[c] = "bulk"
    /\ \/ /\ db = "healthy"
          /\ pc' = [pc EXCEPT ![c] = "rt"]
          /\ t' = [t EXCEPT ![c].longQueryTime = now, ![c].rowCount = dbRows]
          /\ UNCHANGED <<results, appended, unhandled>>
       \/ /\ db = "failing"
          /\ Fail(c, "bulk", "query error")
          /\ Forget(c)
    /\ UNCHANGED <<config, env, db, boot, initConn, armed, started, i, conn,
                   poolTotal, poolIdle, clean>>

\* The callers of pool.connect() that the pool has queued: the pool queues
\* a caller only when it has no idle client and is at its max.
Waiting ==
    IF USE_POOL /\ poolIdle = 0 /\ poolTotal >= POOL_SIZE
    THEN {c \in Cycles : pc[c] = "acquire"}
    ELSE {}

\* pool.totalCount, pool.idleCount and pool.waitingCount as read at
\* part_001:218-222, after client.release() (part_001:205): the released
\* client is idle again, unless the pool hands it on to a queued caller.
PoolStats ==
    IF Waiting = {}
    THEN [total |-> poolTotal, idle |-> poolIdle + 1, waiting |-> 0]
    ELSE [total |-> poolTotal, idle |-> poolIdle,
          waiting |-> Cardinality(Waiting) - 1]

\* await client.query('SELECT $1::int', [i]) (part_001:137-139 / 199-201).
\* The loop variable is gone once the loop is left (i is 0 outside the loop).
\* After the last answer the code runs on without an await: the pool mode
\* releases the client and returns the Sample (part_001:205-228), the client
\* mode calls client.end() (part_001:142).
RoundTrip(c) ==
    /\ pc[c] = "rt"
    /\ \/ /\ db = "healthy"
          /\ i[c] + 1 < RoundTrips
          /\ i' = [i EXCEPT ![c] = i[c] + 1]
          /\ UNCHANGED <<pc, conn, poolIdle, results, appended, unhandled, t>>
       \/ /\ db = "healthy"
          /\ i[c] + 1 >= RoundTrips
          /\ i' = [i EXCEPT ![c] = 0]
          /\ IF USE_POOL
             THEN /\ conn' = [conn EXCEPT ![c] = "released"]
                  /\ poolIdle' = poolIdle + 1
                  /\ Complete(c, Sample(c, [t[c] EXCEPT
                                              !.multiRoundTripTime = now,
                                              !.poolStats = PoolStats]))
                  /\ Forget(c)
             ELSE /\ pc' = [pc EXCEPT ![c] = "end"]
                  /\ t' = [t EXCEPT ![c].multiRoundTripTime = now]
                  /\ UNCHANGED <<conn, poolIdle, results, appended>>
          /\ UNCHANGED unhandled
       \/ /\ db = "failing"
          /\ Fail(c, "rt", "query error")
          /\ i' = [i EXCEPT ![c] = 0]
          /\ Forget(c)
          /\ UNCHANGED <<conn, poolIdle>>
    /\ UNCHANGED <<config, env, db, boot, initConn, armed, started, poolTotal,
                   clean>>

\* await client.end() (part_001:142), then the Sample is built and returned.
\* A rejected end() goes to the catch block like any other error.
End(c) ==
    /\ pc[c] = "end"
    /\ conn' = [conn EXCEPT ![c] = "released"]
    /\ Forget(c)
    /\ \/ /\ db \in {"healthy", "failing"}
          /\ Complete(c, Sample(c, t[c]))
          /\ UNCHANGED unhandled
       \/ /\ db = "failing"
          /\ Fail(c, "end", "end error")
    /\ UNCHANGED <<config, env, db, boot, initConn, armed, started, i, poolTotal,
                   poolIdle, clean>>

(***************************************************************************)
(* Environment.                                                            *)
(***************************************************************************)
\* The database changes its behaviour; a cycle that is measuring meanwhile
\* has not run against a healthy database throughout.
DbChange ==
    /\ \E s \in DbStates \ {db} : db' = s
    /\ clean' = (clean /\ started \notin InFlight)
    /\ UNCHANGED <<config, env, t, boot, initConn, armed, started, pc, i, conn,
                   results, poolTotal, poolIdle, unhandled, appended>>

\* idleTimeoutMillis: 30000 (part_001:21): the pool closes an idle client.
PoolIdleTimeout ==
    /\ USE_POOL
    /\ poolIdle > 0
    /\ poolIdle' = poolIdle - 1
    /\ poolTotal' = poolTotal - 1
    /\ UNCHANGED <<config, env, t, db, boot, initConn, armed, started, pc, i, conn,
                   results, unhandled, appended, clean>>

CycleStep(c) ==
    \/ AcquireClient(c)
    \/ AcquirePool(c)
    \/ AcquireTimeout(c)
    \/ Ping(c)
    \/ Bulk(c)
    \/ RoundTrip(c)
    \/ End(c)

Next ==
    \/ ListenClient
    \/ ListenPool
    \/ InitPoolConnect
    \/ InitPoolTimeout
    \/ InitPoolQuery
    \/ InitPoolDone
    \/ TimerTick
    \/ \E c \in Cycles : CycleStep(c)
    \/ DbChange
    \/ PoolIdleTimeout

Spec == Init /\ [][Next]_vars

\* The event loop runs every callback whose event has arrived: each step of
\* the startup and of a cycle is taken once it stays possible.  Nothing
\* obliges the timer to tick again or the database to change its behaviour.
FairSpec ==
    /\ Spec
    /\ WF_vars(ListenClient \/ ListenPool \/ InitPoolConnect
                  \/ InitPoolTimeout \/ InitPoolQuery \/ InitPoolDone)
    /\ \A c \in Cycles : WF_vars(CycleStep(c))

(***************************************************************************)
(* percentile (part_001:34-39).                                            *)
(***************************************************************************)
MaxLen == 3
MaxValue == 3
MaxRamp == 10

\* The percentiles calcStats asks for (part_001:72-74).
Percentiles == {50, 95, 99}

\* v put at its place in the ascending sequence srt.
RECURSIVE Insert(_, _)
Insert(v, srt) ==
    IF srt = <<>> THEN <<v>>
    ELSE IF v <= Head(srt) THEN <<v>> \o srt
    ELSE <<Head(srt)>> \o Insert(v, Tail(srt))

\* [...arr].sort((a, b) => a - b): a sorted copy, ascending by value.
RECURSIVE SortAsc(_)
SortAsc(arr) ==
    IF arr = <<>> THEN <<>> ELSE Insert(Head(arr), SortAsc(Tail(arr)))

\* Math.ceil(a / b) for integers a >= 0, b > 0.  For p in Percentiles and
\* every length up to 2000 the double (p / 100) * n has the same ceiling as
\* the exact quotient p * n / 100.
Ceil(a, b) == (a + b - 1) \div b

\* Variant: the array is read as it comes, without sorting.
percentileUnsorted(arr, p) ==
    IF Len(arr) = 0 THEN 0
    ELSE LET index == Ceil(p * Len(arr), 100) - 1
         IN  arr[(IF index > 0 THEN index ELSE 0) + 1]

\* Variant: the index is rounded down.
percentileFloor(arr, p) ==
    IF Len(arr) = 0 THEN 0
    ELSE LET sorted == SortAsc(arr)
             index == ((p * Len(sorted)) \div 100) - 1
         IN  sorted[(IF index > 0 THEN index ELSE 0) + 1]

\* sorted[Math.max(0, index)] with the source's 0-based index.
percentile(arr, p) ==
    IF Len(arr) = 0 THEN 0
    ELSE LET sorted == SortAsc(arr)
             index == Ceil(p * Len(sorted), 100) - 1
         IN  sorted[(IF index > 0 THEN index ELSE 0) + 1]

\* The sequence 1, 2, ..., n and the same in descending order.
Ramp(n) == [k \in 1..n |-> k]

RampDown(n) == [k \in 1..n |-> n + 1 - k]

\* The arrays percentile is applied to: every sequence of up to MaxLen
\* values of 1..MaxValue, and the ramps of up to MaxRamp values.
PercentileInputs ==
    UNION {[1..n -> 1..MaxValue] : n \in 0..MaxLen}
        \cup {Ramp(n) : n \in 1..MaxRamp}
        \cup {RampDown(n) : n \in 1..MaxRamp}

\* percentile(arr, p) is about to be called.
PercentileInit ==
    /\ InitProgram
    /\ \E arr \in PercentileInputs, p \in Percentiles :
          response = [fn |-> "call percentile", arr |-> arr, p |-> p]

CallPercentile ==
    /\ response.fn = "call percentile"
    /\ response' = [fn |-> "percentile", arr |-> response.arr,
                    p |-> response.p,
                    value |-> percentile(response.arr, response.p)]
    /\ UNCHANGED <<config, now, wall, dbRows, t, db, boot, initConn, armed, started,
                   pc, i, conn, results, poolTotal, poolIdle, unhandled,
                   appended, clean>>

PercentileSpec == PercentileInit /\ [][CallPercentile]_vars

(***************************************************************************)
(* calculateStats (part_001:42-98).                                        *)
(***************************************************************************)
\* JavaScript's null.
NULL == [null |-> TRUE]

Pad2(n) == IF n < 10 THEN "0" \o ToString(n) ELSE ToString(n)

\* x.toFixed(2) for a value x of h hundredths.
Fixed2(h) == ToString(h \div 100) \o "." \o Pad2(h % 100)

\* The hundredths nearest to a / b, a tie going up as toFixed does.
RoundDiv(a, b) == (2 * a + b) \div (2 * b)

\* Variant: the quotient is not turned into a percentage.
FailureRateFraction(failed, total) ==
    Fixed2(RoundDiv(failed * 100, total)) \o "%"

\* (failed.length / results.length * 100).toFixed(2) + '%'
FailureRate(failed, total) == Fixed2(RoundDiv(failed * 10000, total)) \o "%"

RECURSIVE Sum(_)
Sum(arr) == IF arr = <<>> THEN 0 ELSE Head(arr) + Sum(Tail(arr))

\* Variant: the sum of the values stands where their mean should.
calcStatsSum(arr) ==
    LET sorted == SortAsc(arr)
    IN  [min |-> Fixed2(sorted[1]),
         max |-> Fixed2(sorted[Len(sorted)]),
         avg |-> Fixed2(Sum(arr)),
         p50 |-> Fixed2(percentile(arr, 50)),
         p95 |-> Fixed2(percentile(arr, 95)),
         p99 |-> Fixed2(percentile(arr, 99))]

\* calcStats (part_001:68-75) of a non-empty array of latencies, each held
\* in hundredths of a millisecond.
calcStats(arr) ==
    LET sorted == SortAsc(arr)
    IN  [min |-> Fixed2(sorted[1]),
         max |-> Fixed2(sorted[Len(sorted)]),
         avg |-> Fixed2(RoundDiv(Sum(arr), Len(arr))),
         p50 |-> Fixed2(percentile(arr, 50)),
         p95 |-> Fixed2(percentile(arr, 95)),
         p99 |-> Fixed2(percentile(arr, 99))]

\* Variant: a missing value counts as 0.
LatenciesOrZero(successful, f) ==
    [k \in 1..Len(successful) |->
        IF f \in DOMAIN successful[k] THEN successful[k][f] ELSE 0]

\* successful.map(r => r[f]).filter(v => v !== undefined)
Latencies(successful, f) ==
    LET having == SelectSeq(successful, LAMBDA r : f \in DOMAIN r)
    IN  [k \in 1..Len(having) |-> having[k][f]]

\* arr.length > 0 ? calcStats(arr) : null
StatsOrNull(arr) == IF Len(arr) > 0 THEN calcStats(arr) ELSE NULL

\* Variant: the early return reports no failure at all.
calculateStatsZeroRate(buf) ==
    LET successful == SelectSeq(buf, LAMBDA r : r.success)
        failed == SelectSeq(buf, LAMBDA r : ~r.success)
    IN  IF Len(successful) = 0
        THEN [totalMeasurements |-> Len(buf),
              successfulMeasurements |-> 0,
              failedMeasurements |-> Len(failed),
              failureRate |-> "0%",
              latency |-> NULL]
        ELSE [connectionMode |-> successful[1].mode,
              usePool |-> USE_POOL,
              poolSize |-> IF USE_POOL THEN [null |-> FALSE, n |-> POOL_SIZE]
                           ELSE NULL,
              totalMeasurements |-> Len(buf),
              successfulMeasurements |-> Len(successful),
              failedMeasurements |-> Len(failed),
              failureRate |-> FailureRate(Len(failed), Len(buf)),
              latency |->
                [connect |->
                     StatsOrNull(Latencies(successful, "connectLatencyMs")),
                 poolAcquire |->
                     StatsOrNull(Latencies(successful, "poolAcquireMs")),
                 ping |-> StatsOrNull(Latencies(successful, "pingLatencyMs")),
                 longQuery |->
                     StatsOrNull(Latencies(successful, "longQueryLatencyMs")),
                 avgRoundTrip |->
                     StatsOrNull(Latencies(successful, "avgRoundTripMs")),
                 query |-> calcStats(Latencies(successful, "queryLatencyMs")),
                 total |->
                     calcStats(Latencies(successful, "totalLatencyMs"))]]

\* calculateStats() over the buffer buf; appType, uptime and startTime, which
\* do not depend on the buffer, are left out.
calculateStats(buf) ==
    LET successful == SelectSeq(buf, LAMBDA r : r.success)
        failed == SelectSeq(buf, LAMBDA r : ~r.success)
    IN  IF Len(successful) = 0
        THEN [totalMeasurements |-> Len(buf),
              successfulMeasurements |-> 0,
              failedMeasurements |-> Len(failed),
              failureRate |-> IF Len(buf) > 0
                              THEN FailureRate(Len(failed), Len(buf))
                              ELSE "0%",
              latency |-> NULL]
        ELSE [connectionMode |-> successful[1].mode,
              usePool |-> USE_POOL,
              poolSize |-> IF USE_POOL THEN [null |-> FALSE, n |-> POOL_SIZE]
                           ELSE NULL,
              totalMeasurements |-> Len(buf),
              successfulMeasurements |-> Len(successful),
              failedMeasurements |-> Len(failed),
              failureRate |-> FailureRate(Len(failed), Len(buf)),
              latency |->
                [connect |->
                     StatsOrNull(Latencies(successful, "connectLatencyMs")),
                 poolAcquire |->
                     StatsOrNull(Latencies(successful, "poolAcquireMs")),
                 ping |-> StatsOrNull(Latencies(successful, "pingLatencyMs")),
                 longQuery |->
                     StatsOrNull(Latencies(successful, "longQueryLatencyMs")),
                 avgRoundTrip |->
                     StatsOrNull(Latencies(successful, "avgRoundTripMs")),
                 query |-> calcStats(Latencies(successful, "queryLatencyMs")),
                 total |->
                     calcStats(Latencies(successful, "totalLatencyMs"))]]

\* process.hrtime.bigint() is monotonic: time passes between any two steps
\* of the program, never inside one.
ClockTick ==
    /\ now < MaxTime
    /\ now' = now + 1
    /\ UNCHANGED <<config, wall, dbRows, response, t, db, boot, initConn, armed, started, pc,
                   i, conn, results, poolTotal, poolIdle, unhandled, appended,
                   clean>>

\* The row counts the database may answer the bulk query with: the code
\* stores queryResult.rowCount (part_001:133,149) without looking at it.
RowCounts == {0, ExpectedRows - 1, ExpectedRows}

DbRowsChange ==
    /\ \E n \in RowCounts \ {dbRows} : dbRows' = n
    /\ UNCHANGED <<config, now, wall, response, t, db, boot, initConn, armed, started, pc, i,
                   conn, results, poolTotal, poolIdle, unhandled, appended,
                   clean>>

\* The startup and the initial benchmark (part_001:622-636) under a running
\* clock and a database whose answers vary; the timer does not fire.
TimingNext ==
    \/ ListenClient
    \/ ListenPool
    \/ InitPoolConnect
    \/ InitPoolTimeout
    \/ InitPoolQuery
    \/ InitPoolDone
    \/ CycleStep(1)
    \/ DbChange
    \/ PoolIdleTimeout
    \/ ClockTick
    \/ DbRowsChange

TimingSpec == Init /\ [][TimingNext]_vars

(***************************************************************************)
(* The HTTP handlers (part_001:261-596) next to runBenchmark.              *)
(***************************************************************************)
\* Everything but the buffer, its history and the response.
StatsFrame ==
    <<config, now, wall, dbRows, t, db, boot, initConn, armed, i, conn, poolTotal,
      poolIdle, unhandled, clean>>

\* Clock values of a cycle whose every phase took time.
SampleTimes ==
    {[start |-> 0, acquireTime |-> a, pingTime |-> a + 1,
      longQueryTime |-> a + 3, multiRoundTripTime |-> a + 4,
      rowCount |-> ExpectedRows,
      poolStats |-> [total |-> 1, idle |-> 1, waiting |-> 0]] : a \in 1..2}

\* What measureLatency() can resolve with in cycle c.
Measurements(c) ==
    {Sample(c, l) : l \in SampleTimes} \cup {Failure(c, "query error")}

\* runBenchmark (part_001:250-258) from the moment measureLatency() has
\* resolved: push, then shift when the buffer is over its capacity.
MeasureAndPush ==
    /\ started < MaxCycles
    /\ started' = started + 1
    /\ \E m \in Measurements(started + 1) : Complete(started + 1, m)
    /\ UNCHANGED <<StatsFrame, response>>

\* Variant: the handler answers only while no cycle is in flight.
GetHealthWhenIdle ==
    /\ InFlight = {}
    /\ response' = [fn |-> "/health", status |-> "healthy",
                    measurements |-> Len(results)]
    /\ UNCHANGED <<StatsFrame, started, pc, results, appended>>

\* GET /health (part_001:261-268).
GetHealth ==
    /\ response' = [fn |-> "/health", status |-> "healthy",
                    measurements |-> Len(results)]
    /\ UNCHANGED <<StatsFrame, started, pc, results, appended>>

\* Variant: lastMeasurement is the oldest entry of the buffer.
GetMetricsOldest ==
    /\ response' = [fn |-> "/metrics",
                    lastMeasurement |-> IF Len(results) > 0
                                        THEN results[1] ELSE NULL]
                       @@ calculateStats(results)
    /\ UNCHANGED <<StatsFrame, started, pc, results, appended>>

\* GET /metrics (part_001:270-277): { ...stats, lastMeasurement }.
GetMetrics ==
    /\ response' = [fn |-> "/metrics",
                    lastMeasurement |-> IF Len(results) > 0
                                        THEN results[Len(results)] ELSE NULL]
                       @@ calculateStats(results)
    /\ UNCHANGED <<StatsFrame, started, pc, results, appended>>

\* GET /metrics/summary (part_001:279-318): the lines of the text, the
\* latency blocks as the statistics they print.
GetSummary ==
    /\ LET stats == calculateStats(results)
       IN  response' =
             [fn |-> "/metrics/summary",
              connectionMode |-> IF "connectionMode" \in DOMAIN stats
                                 THEN stats.connectionMode ELSE "unknown",
              totalMeasurements |-> stats.totalMeasurements,
              successful |-> stats.successfulMeasurements,
              failed |-> stats.failedMeasurements,
              failureRate |-> stats.failureRate,
              blocks |-> IF stats.latency # NULL THEN stats.latency
                         ELSE [text |-> "No successful measurements yet."]]
    /\ UNCHANGED <<StatsFrame, started, pc, results, appended>>

\* GET /metrics/history (part_001:320-327).
GetHistory ==
    /\ response' = [fn |-> "/metrics/history",
                    totalResults |-> Len(results), results |-> results]
    /\ UNCHANGED <<StatsFrame, started, pc, results, appended>>

\* Variant: the newest Failure comes first.
GetFailuresNewestFirst ==
    /\ LET failures == SelectSeq(results, LAMBDA r : ~r.success)
           n == Len(failures)
       IN  response' = [fn |-> "/metrics/failures",
                        totalFailures |-> n,
                        failures |-> [j \in 1..n |-> failures[n + 1 - j]]]
    /\ UNCHANGED <<StatsFrame, started, pc, results, appended>>

\* GET /metrics/failures (part_001:329-336).
GetFailures ==
    /\ LET failures == SelectSeq(results, LAMBDA r : ~r.success)
       IN  response' = [fn |-> "/metrics/failures",
                        totalFailures |-> Len(failures),
                        failures |-> failures]
    /\ UNCHANGED <<StatsFrame, started, pc, results, appended>>

\* The probes of /test-outbound: one results.tests.push per probe
\* (part_001:372-587).
NumProbes == 15

\* GET /test-outbound up to its first await (part_001:339-348): the handler
\* declares its own `results`, { timestamp, tests: [] }, which hides the
\* buffer for the rest of the handler.  The response under construction is
\* that object; of its tests array the length is kept, the entries' contents
\* (status, latency, error) are left out.
TestOutboundStart ==
    /\ response' = [fn |-> "/test-outbound", sent |-> FALSE,
                    tests |-> 0]
    /\ UNCHANGED <<StatsFrame, started, pc, results, appended>>

\* Variant: without a `results` of its own the handler pushes into the buffer.
TestOutboundProbeShared ==
    /\ response.fn = "/test-outbound"
    /\ ~response.sent
    /\ response.tests < NumProbes
    /\ response' = [response EXCEPT !.tests = @ + 1]
    /\ results' = Append(results, [status |-> "OK", success |-> FALSE])
    /\ UNCHANGED <<StatsFrame, started, pc, appended>>

\* One probe has ended: results.tests.push({... status: 'OK' | 'FAILED' ...})
\* on the handler's own object.
TestOutboundProbe ==
    /\ response.fn = "/test-outbound"
    /\ ~response.sent
    /\ response.tests < NumProbes
    /\ response' = [response EXCEPT !.tests = @ + 1]
    /\ UNCHANGED <<StatsFrame, started, pc, results, appended>>

\* results.summary = {...}; res.json(results) (part_001:591-595).
TestOutboundSend ==
    /\ response.fn = "/test-outbound"
    /\ ~response.sent
    /\ response.tests = NumProbes
    /\ response' = [response EXCEPT !.sent = TRUE]
    /\ UNCHANGED <<StatsFrame, started, pc, results, appended>>

\* The summaries do not depend on the database or on the connection string.
StatsInit ==
    /\ Init
    /\ db = "healthy"
    /\ DATABASE_URL = "set"

StatsNext ==
    \/ MeasureAndPush
    \/ GetHealth
    \/ GetMetrics
    \/ GetSummary
    \/ GetHistory
    \/ GetFailures
    \/ TestOutboundStart
    \/ TestOutboundProbe
    \/ TestOutboundSend

StatsSpec == StatsInit /\ [][StatsNext]_vars

\* The server from the moment it listens: the startup, the initial benchmark
\* cycle and the routes, which express serves between the awaits of the
\* cycle.
ServeNext ==
    \/ ListenClient
    \/ ListenPool
    \/ InitPoolConnect
    \/ InitPoolTimeout
    \/ InitPoolQuery
    \/ InitPoolDone
    \/ CycleStep(1)
    \/ DbChange
    \/ PoolIdleTimeout
    \/ GetHealth
    \/ GetMetrics
    \/ GetSummary
    \/ GetHistory
    \/ GetFailures
    \/ TestOutboundStart
    \/ TestOutboundProbe
    \/ TestOutboundSend

ServeSpec == Init /\ [][ServeNext]_vars

TypeOK ==
    /\ boot \in {"listening", "initConnect", "initQuery", "initDone",
                 "armed", "crashed"}
    /\ started \in 0..MaxCycles
    /\ \A c \in Cycles : pc[c] \in {"idle", "acquire", "ping", "bulk", "rt",
                                    "end", "done"}
    /\ poolIdle \in 0..poolTotal
    /\ poolTotal \in 0..POOL_SIZE
    /\ now \in 0..MaxTime
    /\ wall \in 0..MaxStamp
    /\ dbRows \in RowCounts
    /\ response.fn \in {"none", "call percentile", "percentile",
                      "call getUptime", "getUptime", "/health",
                      "/metrics", "/metrics/summary", "/metrics/history",
                      "/metrics/failures", "/test-outbound"}
    /\ \A c \in Cycles :
          /\ t[c].start <= now
          /\ t[c].rowCount \in RowCounts

(***************************************************************************)
(* Properties.                                                             *)
(***************************************************************************)
\* The entries of the history that cycle c pushed.
EntriesOf(c) == {k \in 1..Len(appended) : appended[k].cycle = c}

\* C1: in every state the results buffer holds at most MaxResults (400 in
\* the source) measurements, and a push made when it holds that many removes
\* exactly the oldest entry: the buffer becomes its tail followed by the new
\* measurement.
C1_BufferBounded ==
    /\ [](Len(results) <= MaxResults)
    /\ [][(Len(appended') = Len(appended) + 1 /\ Len(results) = MaxResults)
            => results' = Append(Tail(results), appended'[Len(appended')])]_vars

\* An eviction has happened: more pushes than the buffer holds.
C1_Witness ==
    /\ Len(appended) > MaxResults
    /\ Len(results) = MaxResults

\* C2: after more pushes than the capacity, the buffer has exactly the
\* capacity's length and holds the last MaxResults pushed measurements in
\* the order of their pushes.
C2_LastEntriesInOrder ==
    Len(appended) > MaxResults =>
        /\ Len(results) = MaxResults
        /\ results = SubSeq(appended, Len(appended) - MaxResults + 1,
                            Len(appended))

\* More pushes than the capacity, Samples and Failures among them, and a
\* Failure among the retained entries.
C2_Witness ==
    /\ Len(appended) > MaxResults
    /\ \E k \in 1..Len(appended) : appended[k].success
    /\ \E k \in 1..Len(results) : ~results[k].success

\* C3: in client mode no connection that a cycle opened is still open once
\* the cycle has returned its measurement, whether its queries succeeded or
\* one of them failed.
C3_ClientAlwaysCloses ==
    ~USE_POOL => \A c \in Cycles : pc[c] = "done" => conn[c] # "held"

\* C4: in pool mode every successful checkout, in a cycle and in the startup
\* pool test, is released before the operation returns, so the number of
\* checked-out clients never exceeds the number of operations in flight.
C4_PoolAlwaysReleases ==
    USE_POOL =>
        /\ \A c \in Cycles : pc[c] = "done" => conn[c] # "held"
        /\ boot \in {"initDone", "armed"} => initConn # "held"
        /\ CheckedOut <= Cardinality(InFlight)
                            + (IF boot = "initQuery" THEN 1 ELSE 0)

\* C5: whatever cycles failed before, a cycle that runs from start to end
\* against a healthy database, with no other cycle in flight, yields a
\* Sample (the database URL being configured and the startup pool test
\* having left no client behind).
C5_FailureHasNoEffect ==
    (/\ DATABASE_URL = "set"
     /\ initConn # "held"
     /\ started > 0
     /\ pc[started] = "done"
     /\ clean)
        => \A k \in EntriesOf(started) : appended[k].success

\* C6: once the timer is installed it stays installed and a tick can start a
\* cycle in every state (up to the model's bounds on cycles), whatever the
\* earlier cycles produced and whether or not they are still in flight; a
\* query error in the middle of a cycle pushes exactly one Failure and
\* leaves the timer installed.
C6_SchedulerNeverStops ==
    /\ []((armed /\ started < MaxCycles /\ Cardinality(InFlight) < MaxInFlight)
            => ENABLED TimerTick)
    /\ [][armed => armed']_vars
    /\ [][\A c \in Cycles :
            (pc[c] \in {"ping", "bulk", "rt"} /\ pc'[c] = "done"
                /\ db = "failing")
            => /\ Len(appended') = Len(appended) + 1
               /\ appended'[Len(appended')] = Failure(c, "query error")
               /\ armed']_vars

\* A cycle failed on a query and a later cycle has been started.
C6_Witness ==
    \E k \in 1..Len(appended) :
        /\ ~appended[k].success
        /\ appended[k].error = "query error"
        /\ started > appended[k].cycle

\* C7: no error leaves measureLatency as an exception: every cycle that has
\* ended has returned a measurement, which runBenchmark has pushed.
C7_NeverRaises ==
    /\ ~unhandled
    /\ \A c \in Cycles : pc[c] = "done" => EntriesOf(c) # {}

\* Failures of acquisition, of a query and of the close have been returned.
C7_Witness ==
    {"connect error", "query error", "end error"} \subseteq
        {appended[k].error : k \in {j \in 1..Len(appended) :
                                        ~appended[j].success}}

\* C8: every completed cycle has pushed exactly one measurement and a cycle
\* that has not completed has pushed none, so the number of pushes equals
\* the number of completed cycles.
C8_OneMeasurementPerCycle ==
    /\ \A c \in Cycles :
        Cardinality(EntriesOf(c)) = IF pc[c] = "done" THEN 1 ELSE 0
    /\ Len(appended) = Cardinality({c \in Cycles : pc[c] = "done"})

\* All cycles have completed, with a Sample and a Failure among them.
C8_Witness ==
    /\ \A c \in Cycles : pc[c] = "done"
    /\ \E k \in 1..Len(appended) : appended[k].success
    /\ \E k \in 1..Len(appended) : ~appended[k].success

\* C9: every started cycle eventually completes and pushes its measurement.
C9_EveryCycleCompletes ==
    \A c \in Cycles : (pc[c] # "idle") ~> (pc[c] = "done")

\* C10 as claimed: at most one cycle is in flight at every moment.
C10_AtMostOneInFlight == Cardinality(InFlight) <= 1

\* C10 as amended: the number of cycles in flight exceeds one only through a
\* timer tick that fires while a cycle is in flight; the timer has no guard
\* against that, so it holds at most one cycle in flight only as long as
\* every cycle returns before the next tick.
C10_OverlapOnlyByTick ==
    [][\/ Cardinality(InFlight') <= 1
       \/ Cardinality(InFlight) >= 2
       \/ (/\ Cardinality(InFlight) = 1
           /\ armed
           /\ started' = started + 1)]_vars

\* Two cycles are in flight, the later one started by a timer tick.
C10_Witness ==
    /\ armed
    /\ Cardinality(InFlight) = 2

\* The entry a step has just pushed.
Pushed == appended'[Len(appended')]

\* Cycle c ends in this step with the push of a successful measurement.
CompletesWithSample(c) ==
    /\ pc[c] # "done"
    /\ pc'[c] = "done"
    /\ Len(appended') = Len(appended) + 1
    /\ Pushed.cycle = c
    /\ Pushed.success

\* The clock at the end of the tenth round trip of a cycle that completes
\* in this step: taken in this very step by the pool mode (part_001:202),
\* in the step before client.end() by the client mode (part_001:140).
LastRoundTripTime(c) == IF USE_POOL THEN now ELSE t[c].multiRoundTripTime

\* C11 as stated: the totalLatencyMs of a successful measurement is the time
\* elapsed from the start of the cycle to the end of the release of the
\* pooled client or of the close of the fresh connection, that is, to the
\* moment the measurement is built.
C11_TotalIncludesClose ==
    [][\A c \in Cycles :
          CompletesWithSample(c) =>
              Pushed.totalLatencyMs = Ms(now - t[c].start)]_vars

\* C11 amended: multiRoundTripTime is the clock at the end of the tenth
\* round trip, taken before client.end() / client.release() is called, and
\* the totalLatencyMs of a successful measurement is the time elapsed from
\* the start of the cycle to multiRoundTripTime: the time spent closing or
\* releasing the connection is not part of it.
C11_TotalUntilLastRoundTrip ==
    [][\A c \in Cycles :
          /\ (pc[c] = "rt" /\ pc'[c] = "end" =>
                 /\ t'[c].multiRoundTripTime = now
                 /\ conn'[c] = "held")
          /\ (pc[c] = "end" /\ pc'[c] = "end" => t'[c] = t[c])
          /\ (CompletesWithSample(c) =>
                 /\ pc[c] = IF USE_POOL THEN "rt" ELSE "end"
                 /\ Pushed.totalLatencyMs
                      = Ms(LastRoundTripTime(c) - t[c].start)
                 /\ Pushed.totalLatencyMs <= Ms(now - t[c].start))]_vars

\* A fresh connection whose close took time: the clock has moved between
\* the end of the tenth round trip and the return of client.end().
C11_Witness ==
    /\ ~USE_POOL
    /\ pc[1] = "end"
    /\ t[1].start < t[1].multiRoundTripTime
    /\ t[1].multiRoundTripTime < now
    /\ db = "healthy"

\* The first phase of a successful measurement: poolAcquireMs in pool mode,
\* connectLatencyMs in client mode.
AcquireMs(m) ==
    IF m.mode = "pool" THEN m.poolAcquireMs ELSE m.connectLatencyMs

\* C12: in every successful measurement, totalLatencyMs is the sum of the
\* acquisition time (connect or pool acquire), the ping time, the bulk query
\* time and the total round-trip time: the four phases follow one another
\* without a gap and without overlap.
C12_TotalIsSumOfPhases ==
    \A k \in 1..Len(appended) :
        appended[k].success =>
            appended[k].totalLatencyMs
                = AcquireMs(appended[k]) + appended[k].pingLatencyMs
                  + appended[k].longQueryLatencyMs
                  + appended[k].multiRoundTripLatencyMs

\* A successful measurement each of whose four phases took time.
C12_Witness ==
    \E k \in 1..Len(appended) :
        /\ appended[k].success
        /\ AcquireMs(appended[k]) > 0
        /\ appended[k].pingLatencyMs > 0
        /\ appended[k].longQueryLatencyMs > 0
        /\ appended[k].multiRoundTripLatencyMs > 0

\* The number of entries of arr that are below v, and that are at most v.
CountBelow(arr, v) == Cardinality({k \in 1..Len(arr) : arr[k] < v})

CountUpTo(arr, v) == Cardinality({k \in 1..Len(arr) : arr[k] <= v})

\* The nearest-rank index for percentile p of n values, counted from 0:
\* max(0, ceil(p * n / 100) - 1), the ceiling being the least integer that
\* is not below the quotient.
NearestRank(n, p) ==
    LET c == CHOOSE c \in 0..n : 100 * c >= p * n /\ 100 * (c - 1) < p * n
    IN  IF c - 1 > 0 THEN c - 1 ELSE 0

\* C13: percentile(values, p), for p in {50, 95, 99}, returns 0 for an empty
\* array and otherwise the element that stands at the 0-based index
\* max(0, ceil(p * n / 100) - 1) of the values in ascending order: a value
\* of the array with at most that many values below it and more than that
\* many values not above it.
C13_PercentileIsNearestRank ==
    response.fn = "percentile" =>
        LET arr == response.arr
            v == response.value
            j == NearestRank(Len(arr), response.p)
        IN  IF arr = <<>> THEN v = 0
            ELSE /\ \E k \in 1..Len(arr) : arr[k] = v
                 /\ CountBelow(arr, v) <= j
                 /\ j < CountUpTo(arr, v)

\* percentile has been applied to an unsorted array with a repeated value,
\* and has returned a value that is not the array's last.
C13_Witness ==
    /\ response.fn = "percentile"
    /\ response.arr = <<3, 1, 3>>
    /\ response.p = 50
    /\ response.value = 3

\* The ten phase values 1, 2, ..., 10.
TenValues == Ramp(10)

\* C14 as stated: for the ten values 1, 2, ..., 10 percentile returns 5 for
\* p50, 9 (the value at index 8) for p95 and 10 for p99.
C14_RampPercentilesAsStated ==
    (response.fn = "percentile" /\ response.arr = TenValues) =>
        response.value = CASE response.p = 50 -> 5
                           [] response.p = 95 -> 9
                           [] response.p = 99 -> 10

\* C14 amended: for the ten values 1, 2, ..., 10 percentile returns 5 for
\* p50 (index 4) and 10 for both p95 and p99 (index 9: ceil(9.5) - 1 and
\* ceil(9.9) - 1).
C14_RampPercentiles ==
    (response.fn = "percentile" /\ response.arr = TenValues) =>
        response.value = CASE response.p = 50 -> 5
                           [] response.p = 95 -> 10
                           [] response.p = 99 -> 10

\* percentile(1..10, 95) has returned 10.
C14_Witness ==
    /\ response.fn = "percentile"
    /\ response.arr = TenValues
    /\ response.p = 95
    /\ response.value = 10

\* This step is the answer of GET /metrics, computed on the buffer `results`.
MetricsAnswered == response' # response /\ response'.fn = "/metrics"

\* The buffer holds no successful measurement.
NoSample(buf) == \A k \in 1..Len(buf) : ~buf[k].success

\* The failures among the entries of buf.
FailedIn(buf) == Cardinality({k \in 1..Len(buf) : ~buf[k].success})

\* C15: whenever the buffer holds no successful measurement (it is empty or
\* holds only Failures), calculateStats returns (GET /metrics can always be
\* answered), with latency null and successfulMeasurements 0; for the
\* empty buffer totalMeasurements is 0, and for a buffer of Failures only
\* failureRate is 100 percent ("100.00%").
C15_StatsWithoutSample ==
    [][/\ NoSample(results) => ENABLED GetMetrics
       /\ (MetricsAnswered /\ NoSample(results)) =>
             /\ response'.latency = NULL
             /\ response'.successfulMeasurements = 0
             /\ (results = <<>> =>
                    /\ response'.totalMeasurements = 0
                    /\ response'.lastMeasurement = NULL)
             /\ (results # <<>> => response'.failureRate = "100.00%")]_vars

\* GET /metrics has been answered on a full buffer of Failures.
C15_Witness ==
    /\ response.fn = "/metrics"
    /\ response.totalMeasurements = MaxResults
    /\ response.failedMeasurements = MaxResults
    /\ response.latency = NULL
    /\ response.failureRate = "100.00%"

\* The failure rate in hundredths of a percent: the integer nearest to
\* 10000 * failed / total, the upper one of two equally near.
NearestHundredths(failed, total) ==
    CHOOSE h \in {(10000 * failed) \div total,
                  (10000 * failed) \div total + 1} :
        /\ 2 * (h * total - 10000 * failed) <= total
        /\ 2 * (10000 * failed - h * total) < total

\* One Failure among three entries.
OneOfThree ==
    <<Failure(1, "timeout"), Sample(2, NoTimes), Sample(3, NoTimes)>>

\* C16: for every buffer state calculateStats reports totalMeasurements =
\* the current length of the buffer = successfulMeasurements +
\* failedMeasurements, and failureRate = failedMeasurements /
\* totalMeasurements as a percentage with two decimals over the entries
\* the buffer currently retains ("0%" for the empty buffer, "0.00%" for
\* Samples only, "33.33%" for one Failure among three entries); entries
\* that were evicted are not counted.
C16_CountsAndFailureRate ==
    [][MetricsAnswered =>
          LET n == Len(results)
              f == FailedIn(results)
          IN  /\ response'.totalMeasurements = n
              /\ response'.failedMeasurements = f
              /\ response'.successfulMeasurements
                   + response'.failedMeasurements
                     = response'.totalMeasurements
              /\ response'.totalMeasurements <= MaxResults
              /\ response'.failureRate =
                   IF n = 0 THEN "0%"
                   ELSE Fixed2(NearestHundredths(f, n)) \o "%"
              /\ (f = 0 /\ n > 0 => response'.failureRate = "0.00%")
              /\ calculateStats(OneOfThree).failureRate = "33.33%"]_vars

\* GET /metrics has been answered after the eviction of a Failure: the
\* buffer retains Samples only, and the failure rate is 0.
C16_Witness ==
    /\ Len(appended) > MaxResults
    /\ ~appended[1].success
    /\ response.fn = "/metrics"
    /\ response.totalMeasurements = MaxResults
    /\ response.failedMeasurements = 0
    /\ response.failureRate = "0.00%"

\* C17: when the acquisition of a connection fails (connect error or
\* timeout), the cycle ends at once with a Failure that carries no phase
\* latency; no connection was obtained, so none is released or closed and
\* the pool's counts stay as they are; and no ping, bulk or round-trip query
\* is issued afterwards: the cycle stays ended.
C17_AcquireFailure ==
    [][\A c \in Cycles :
          /\ (pc[c] = "acquire" /\ pc'[c] = "done") =>
                /\ Len(appended') = Len(appended) + 1
                /\ Pushed.cycle = c
                /\ ~Pushed.success
                /\ DOMAIN Pushed = {"cycle", "timestamp", "mode", "error",
                                   "success"}
                /\ conn[c] = "none"
                /\ conn'[c] = "none"
                /\ poolIdle' = poolIdle
                /\ poolTotal' = poolTotal
          /\ pc[c] = "acquire" => pc'[c] \in {"acquire", "ping", "done"}
          /\ pc[c] = "done" => (pc'[c] = "done" /\ conn'[c] = conn[c])]_vars

\* A cycle whose acquisition timed out has ended with a Failure.
C17_Witness ==
    \E c \in Cycles :
        /\ pc[c] = "done"
        /\ conn[c] = "none"
        /\ \E k \in EntriesOf(c) : appended[k].error = "timeout"

\* C18: the row count of the bulk query is stored, never checked: an
\* answered bulk query carries the cycle on to the round trips whatever
\* its row count, the bulk step fails only on a query error, and the
\* successful measurement records the row count the query came back with.
C18_RowCountRecordedNotChecked ==
    [][\A c \in Cycles :
          /\ (pc[c] = "bulk" /\ pc'[c] # "bulk") =>
                IF db = "healthy"
                THEN pc'[c] = "rt" /\ t'[c].rowCount = dbRows
                ELSE db = "failing" /\ pc'[c] = "done" /\ ~Pushed.success
          /\ pc[c] \in {"rt", "end"} /\ pc'[c] \in {"rt", "end"} =>
                t'[c].rowCount = t[c].rowCount
          /\ CompletesWithSample(c) =>
                Pushed.longQueryRows = t[c].rowCount]_vars

\* A successful measurement whose bulk query came back short of the 1000
\* rows asked for.
C18_Witness ==
    \E k \in 1..Len(appended) :
        /\ appended[k].success
        /\ appended[k].longQueryRows = ExpectedRows - 1

\* What the buffer retains of the history hist of pushes: its last
\* MaxResults entries, as they were pushed.
Retained(hist) ==
    SubSeq(hist,
           IF Len(hist) > MaxResults THEN Len(hist) - MaxResults + 1 ELSE 1,
           Len(hist))

\* C19: no HTTP handler (/health, /metrics, /metrics/summary,
\* /metrics/history, /metrics/failures, /test-outbound) and no statistics
\* computation changes the buffer: a step that hands out a response leaves
\* the buffer as it is, the buffer changes only in the push of runBenchmark,
\* and after every step it holds the retained entries exactly as they were
\* pushed.
C19_BufferOnlyChangedByPush ==
    [][/\ response' # response => (results' = results /\ appended' = appended)
       /\ results' # results =>
             /\ response' = response
             /\ started' = started + 1
             /\ appended' = Append(appended, Pushed)
       /\ results' = Retained(appended')]_vars

\* /test-outbound has run all its probes and answered next to a buffer that
\* has already evicted an entry.
C19_Witness ==
    /\ response.fn = "/test-outbound"
    /\ response.sent
    /\ response.tests = NumProbes
    /\ Len(appended) > MaxResults
    /\ results = Retained(appended)

\* C20: a reader sees the buffer as it is before or after a push with its
\* eviction, never in between: the history handed out is the buffer after
\* some number of pushes and never longer than the capacity; and in one
\* /metrics response the statistics and lastMeasurement come from the same
\* buffer state, lastMeasurement being the entry pushed last.
C20_ReadersSeeWholePushes ==
    [][/\ response'.fn = "/metrics/history" =>
             /\ response'.totalResults = Len(response'.results)
             /\ Len(response'.results) <= MaxResults
             /\ \E n \in 0..Len(appended') :
                    response'.results = Retained(SubSeq(appended', 1, n))
       /\ MetricsAnswered =>
             /\ response' =
                  [fn |-> "/metrics",
                   lastMeasurement |-> IF appended = <<>> THEN NULL
                                       ELSE appended[Len(appended)]]
                     @@ calculateStats(Retained(appended))
             /\ response'.totalMeasurements <= MaxResults]_vars

\* GET /metrics has been answered after an eviction, with the newest entry
\* as lastMeasurement and the statistics of the full buffer.
C20_Witness ==
    /\ response.fn = "/metrics"
    /\ Len(appended) > MaxResults
    /\ response.lastMeasurement = appended[Len(appended)]
    /\ response.lastMeasurement # results[1]
    /\ response.totalMeasurements = MaxResults

\* Everything a benchmark cycle reads or writes.
CycleState ==
    <<config, db, boot, initConn, armed, started, pc, i, conn, results,
      poolTotal, poolIdle, unhandled, appended, clean, t>>

\* C21: the read handlers and the measurement cycle never block one another.
\* In every state of the running server, whatever the cycle is suspended on
\* (an acquisition, a query that never answers), each route can be answered
\* and a /test-outbound under way can take its next step; and a step of a
\* handler changes nothing a cycle reads, so every cycle step that could be
\* taken before it can be taken after it.  (Nothing is said of the server
\* whose listen callback has been rejected.)
C21_HandlersAndCycleIndependent ==
    /\ [](boot # "crashed" =>
             /\ ENABLED GetHealth
             /\ ENABLED GetMetrics
             /\ ENABLED GetSummary
             /\ ENABLED GetHistory
             /\ ENABLED GetFailures
             /\ ENABLED TestOutboundStart
             /\ (response.fn = "/test-outbound" /\ ~response.sent) =>
                    ENABLED (TestOutboundProbe \/ TestOutboundSend))
    /\ [][response' # response =>
             /\ UNCHANGED CycleState
             /\ \A c \in Cycles :
                    (ENABLED CycleStep(c)) => (ENABLED CycleStep(c))']_vars

\* /test-outbound has been answered while the cycle is suspended on a bulk
\* query that the database does not answer.
C21_Witness ==
    /\ pc[1] = "bulk"
    /\ db = "silent"
    /\ response.fn = "/test-outbound"
    /\ response.sent

\* The position in buf of its j-th Failure.
NthFailure(buf, j) ==
    CHOOSE k \in 1..Len(buf) :
        ~buf[k].success /\ FailedIn(SubSeq(buf, 1, k)) = j

\* C22: GET /metrics/failures returns exactly the entries of the buffer
\* that are Failures, in buffer order, and totalFailures is their number,
\* which is the failedMeasurements calculateStats reports for the same
\* buffer.
C22_FailuresRoute ==
    [][(response' # response /\ response'.fn = "/metrics/failures") =>
          /\ response'.totalFailures = Len(response'.failures)
          /\ response'.totalFailures = FailedIn(results)
          /\ response'.totalFailures
               = calculateStats(results).failedMeasurements
          /\ \A j \in 1..Len(response'.failures) :
                 response'.failures[j] = results[NthFailure(results, j)]]_vars

\* The route has been answered on a buffer of two Failures, the older first.
C22_Witness ==
    /\ response.fn = "/metrics/failures"
    /\ response.totalFailures = 2
    /\ response.failures[1].cycle < response.failures[2].cycle

\* The moves of a cycle's position: the operations in their order, and from
\* each of them the end of the cycle.
CycleOrder ==
    {<<"idle", "acquire">>, <<"acquire", "ping">>, <<"ping", "bulk">>,
     <<"bulk", "rt">>, <<"rt", "end">>, <<"end", "done">>,
     <<"idle", "done">>, <<"acquire", "done">>, <<"ping", "done">>,
     <<"bulk", "done">>, <<"rt", "done">>}

\* C23: within one cycle the database operations come in the order acquire,
\* ping, bulk query, ten round-trip queries with the parameters 0, 1, ..., 9
\* (each once, in increasing order), release or close.  A query is awaited
\* only on a connection that has been acquired, each operation starts when
\* the one before it has completed, and a cycle succeeds only after the
\* round trip with parameter 9.
C23_FixedOrder ==
    [][\A c \in Cycles :
          /\ pc'[c] # pc[c] => <<pc[c], pc'[c]>> \in CycleOrder
          /\ pc'[c] \in {"ping", "bulk", "rt", "end"} => conn'[c] = "held"
          /\ pc'[c] \in {"idle", "acquire"} => conn'[c] = "none"
          /\ pc'[c] # "rt" => i'[c] = 0
          /\ (pc[c] = "bulk" /\ pc'[c] = "rt") => i'[c] = 0
          /\ (pc[c] = "rt" /\ pc'[c] = "rt" /\ i'[c] # i[c]) =>
                (i'[c] = i[c] + 1 /\ i'[c] < RoundTrips)
          /\ (pc[c] = "rt" /\ (pc'[c] = "end" \/ CompletesWithSample(c))) =>
                i[c] = RoundTrips - 1
          /\ CompletesWithSample(c) =>
                /\ pc[c] = IF USE_POOL THEN "rt" ELSE "end"
                /\ conn[c] = "held"
                /\ conn'[c] = "released"
          /\ pc'[c] = "rt" =>
                /\ t'[c].start <= t'[c].acquireTime
                /\ t'[c].acquireTime <= t'[c].pingTime
                /\ t'[c].pingTime <= t'[c].longQueryTime
                /\ t'[c].longQueryTime <= now']_vars

\* The round trip with parameter 9 is awaited, after time has passed in
\* each of the earlier operations.
C23_Witness ==
    /\ pc[1] = "rt"
    /\ i[1] = RoundTrips - 1
    /\ conn[1] = "held"
    /\ t[1].start < t[1].acquireTime
    /\ t[1].acquireTime < t[1].pingTime
    /\ t[1].pingTime < t[1].longQueryTime

\* The fields of a successful measurement.
SampleFields ==
    {"cycle", "timestamp", "mode",
     IF USE_POOL THEN "poolAcquireMs" ELSE "connectLatencyMs",
     "pingLatencyMs", "longQueryLatencyMs", "longQueryRows",
     "multiRoundTripLatencyMs", "avgRoundTripMs", "queryLatencyMs",
     "totalLatencyMs", "success"}
        \cup (IF USE_POOL THEN {"poolStats"} ELSE {})

\* C24: when a query of a cycle fails (the ping, the bulk query or one of
\* the round trips) the cycle ends in that step: it issues no later query,
\* and what it pushes is a Failure whose error is the message of the error
\* that occurred and that carries no latency.  Every successful measurement
\* carries all its phases: there is no Sample of a part of a cycle.
C24_QueryFailureAborts ==
    [][\A c \in Cycles :
          /\ (pc[c] \in {"ping", "bulk", "rt"} /\ pc'[c] = "done"
                 /\ ~CompletesWithSample(c)) =>
                /\ db = "failing"
                /\ appended' = Append(appended,
                                      [cycle |-> c, timestamp |-> wall,
                                       mode |-> IF USE_POOL THEN "pool"
                                                ELSE "client",
                                       error |-> "query error",
                                       success |-> FALSE])
                /\ i'[c] = 0
          /\ pc[c] = "done" => (pc'[c] = "done" /\ i'[c] = 0)
          /\ CompletesWithSample(c) =>
                /\ DOMAIN Pushed = SampleFields
                /\ i[c] = IF USE_POOL THEN RoundTrips - 1 ELSE 0]_vars

\* A cycle has ended in a query failure, its connection acquired and never
\* given back.
C24_Witness ==
    /\ pc[1] = "done"
    /\ conn[1] = "held"
    /\ Len(appended) = 1
    /\ ~appended[1].success
    /\ appended[1].error = "query error"

\* C25 as stated: every successful measurement carries the ordered sequence
\* of the durations of its ten round-trip queries, next to their mean.
C25_SampleHasRoundTripSequence ==
    \A k \in 1..Len(appended) :
        appended[k].success =>
            /\ "avgRoundTripMs" \in DOMAIN appended[k]
            /\ "roundTripLatencies" \in DOMAIN appended[k]
            /\ Len(appended[k].roundTripLatencies) = RoundTrips

\* C26: in every successful measurement multiRoundTripLatencyMs is the time
\* from the end of the bulk query to the end of the tenth round trip, and
\* avgRoundTripMs times 10 equals it.
C26_AvgTimesTenIsTotal ==
    [][\A c \in Cycles :
          CompletesWithSample(c) =>
              /\ Pushed.multiRoundTripLatencyMs
                   = Ms(LastRoundTripTime(c) - t[c].longQueryTime)
              /\ Pushed.avgRoundTripMs * RoundTrips
                   = Pushed.multiRoundTripLatencyMs]_vars

\* A successful measurement whose ten round trips took three milliseconds
\* together, 0.30 ms on average.
C26_Witness ==
    \E k \in 1..Len(appended) :
        /\ appended[k].success
        /\ appended[k].multiRoundTripLatencyMs = Ms(3)
        /\ appended[k].avgRoundTripMs = 30

\* C27 as stated: the pool counts stored in a pool-mode measurement are
\* those of the moment of acquisition, when the cycle's own client is
\* checked out: the counts never show every client of the pool idle.
C27_PoolStatsAtAcquisition ==
    \A k \in 1..Len(appended) :
        (appended[k].success /\ appended[k].mode = "pool") =>
            /\ appended[k].poolStats.total >= 1
            /\ appended[k].poolStats.idle < appended[k].poolStats.total

\* C28 as stated: every startup path arms the scheduler: when the listen
\* callback has ended, whatever USE_POOL and DATABASE_URL are and however
\* the pool's initialisation went, the first cycle has been started and the
\* periodic timer is installed.
C28_EveryStartupArms ==
    boot \in {"armed", "crashed"} => (armed /\ started >= 1)

\* This step is the answer of GET /metrics on a buffer with a Sample.
MetricsWithSample == MetricsAnswered /\ ~NoSample(results)

\* C29: calculateStats reports a phase as null when no retained Sample has
\* a value for it, and computes statistics only over non-empty lists: with
\* a Sample in the buffer, latency.connect is null and latency.poolAcquire
\* is not in pool mode, the reverse in client mode, and ping, longQuery,
\* avgRoundTrip, query and total are not null; without a Sample the whole
\* latency is null.
C29_NullPhases ==
    [][/\ (MetricsAnswered /\ NoSample(results)) => response'.latency = NULL
       /\ MetricsWithSample =>
             /\ response'.latency # NULL
             /\ (response'.latency.connect = NULL) <=> USE_POOL
             /\ (response'.latency.poolAcquire = NULL) <=> ~USE_POOL
             /\ response'.latency.ping # NULL
             /\ response'.latency.longQuery # NULL
             /\ response'.latency.avgRoundTrip # NULL
             /\ response'.latency.query # NULL
             /\ response'.latency.total # NULL
             /\ response'.latency.total.min
                  = response'.latency.total.max
                    => \A j, k \in 1..Len(results) :
                           (results[j].success /\ results[k].success) =>
                               results[j].totalLatencyMs
                                 = results[k].totalLatencyMs]_vars

\* GET /metrics has been answered in pool mode on a buffer that retains a
\* Sample next to a Failure.
C29_Witness ==
    /\ USE_POOL
    /\ response.fn = "/metrics"
    /\ response.successfulMeasurements = 1
    /\ response.failedMeasurements = 1
    /\ response.latency # NULL
    /\ response.latency.connect = NULL
    /\ response.latency.poolAcquire # NULL

\* Values of process.env.USE_POOL: the two documented ones, two that a
\* deployment may write for "on", and the variable left unset.
UsePoolValues == {"true", "false", "TRUE", "1", "unset"}

ModeInit ==
    /\ InitWith(UsePoolValues)
    /\ response = [fn |-> "none"]
    /\ db = "healthy"
    /\ DATABASE_URL = "set"

ModeSpec == ModeInit /\ [][StatsNext]_vars

\* The strategy the process was configured with (part_001:11, 241-247).
ConfiguredMode == IF envUsePool = "true" THEN "pool" ELSE "client"

\* C30: the mode is fixed for the life of the process: USE_POOL never
\* changes, every Measurement in the buffer, Sample or Failure, carries the
\* same mode, which is 'pool' exactly when the environment's USE_POOL is the
\* string 'true', and the connectionMode that calculateStats reports with a
\* Sample in the buffer is that mode.
C30_ModeFixed ==
    /\ [](\A k \in 1..Len(results) : results[k].mode = ConfiguredMode)
    /\ [][/\ USE_POOL' = USE_POOL
          /\ envUsePool' = envUsePool
          /\ MetricsWithSample =>
                /\ response'.connectionMode = ConfiguredMode
                /\ response'.usePool = (envUsePool = "true")]_vars

\* USE_POOL set to 'TRUE': the buffer holds client-mode Measurements and
\* GET /metrics has reported the client mode.
C30_Witness ==
    /\ envUsePool = "TRUE"
    /\ Len(results) = MaxResults
    /\ \A k \in 1..Len(results) : results[k].mode = "client"
    /\ response.fn = "/metrics"
    /\ response.successfulMeasurements >= 1
    /\ response.connectionMode = "client"

\* The fields of a measurement that hold a latency (part_001:144-155 /
\* 207-217).
LatencyFields ==
    {"connectLatencyMs", "poolAcquireMs", "pingLatencyMs",
     "longQueryLatencyMs", "multiRoundTripLatencyMs", "avgRoundTripMs",
     "queryLatencyMs", "totalLatencyMs"}

\* C31: every entry of the buffer is a Sample or a Failure and none mixes
\* the two: an entry with success = true has its acquire latency (connect
\* or pool acquire), ping, bulk, round-trip, query and total latencies and
\* no error field; an entry with success = false has an error and no
\* latency field.
C31_SampleOrFailure ==
    \A k \in 1..Len(results) :
        LET r == results[k]
            D == DOMAIN r
        IN  /\ r.success \in BOOLEAN
            /\ r.success =>
                  /\ (IF r.mode = "pool" THEN "poolAcquireMs"
                                         ELSE "connectLatencyMs") \in D
                  /\ {"pingLatencyMs", "longQueryLatencyMs",
                      "multiRoundTripLatencyMs", "avgRoundTripMs",
                      "queryLatencyMs", "totalLatencyMs"} \subseteq D
                  /\ "error" \notin D
            /\ ~r.success =>
                  /\ "error" \in D
                  /\ D \cap LatencyFields = {}

\* The buffer holds a Sample next to a Failure.
C31_Witness ==
    /\ \E k \in 1..Len(results) : results[k].success
    /\ \E k \in 1..Len(results) :
          ~results[k].success /\ results[k].error # ""

(***************************************************************************)
(* getUptime (part_001:100-107).                                           *)
(***************************************************************************)
MaxHours == 25

\* Variant: the minutes are not taken within the hour.
getUptimeTotalMinutes(diff) ==
    LET hours == diff \div (1000 * 60 * 60)
        minutes == diff \div (1000 * 60)
        seconds == (diff % (1000 * 60)) \div 1000
    IN  [hours |-> hours, minutes |-> minutes, seconds |-> seconds,
         text |-> ToString(hours) \o "h " \o ToString(minutes) \o "m "
                    \o ToString(seconds) \o "s"]

\* getUptime() for diff = now - startTime in milliseconds, diff >= 0: the
\* three locals and the text that is returned.
getUptime(diff) ==
    LET hours == diff \div (1000 * 60 * 60)
        minutes == (diff % (1000 * 60 * 60)) \div (1000 * 60)
        seconds == (diff % (1000 * 60)) \div 1000
    IN  [hours |-> hours, minutes |-> minutes, seconds |-> seconds,
         text |-> ToString(hours) \o "h " \o ToString(minutes) \o "m "
                    \o ToString(seconds) \o "s"]

\* Elapsed times in milliseconds up to MaxHours hours and beyond a day: at
\* the start, in the middle and at the end of an hour, of a minute and of a
\* second.
UptimeInputs ==
    {((h * 60 + m) * 60 + s) * 1000 + ms :
        h \in 0..MaxHours, m \in {0, 1, 59}, s \in {0, 1, 59},
        ms \in {0, 1, 999}}

\* getUptime() is about to be called diff milliseconds after startTime.
UptimeInit ==
    /\ InitProgram
    /\ \E diff \in UptimeInputs :
          response = [fn |-> "call getUptime", diff |-> diff]

CallGetUptime ==
    /\ response.fn = "call getUptime"
    /\ response' = [fn |-> "getUptime", diff |-> response.diff]
                      @@ getUptime(response.diff)
    /\ UNCHANGED <<config, now, wall, dbRows, t, db, boot, initConn, armed, started,
                   pc, i, conn, results, poolTotal, poolIdle, unhandled,
                   appended, clean>>

UptimeSpec == UptimeInit /\ [][CallGetUptime]_vars

\* C32: for an elapsed time of d >= 0 whole milliseconds getUptime reports
\* hours h, minutes m and seconds s with 0 <= m < 60, 0 <= s < 60 and
\* h * 3600 + m * 60 + s = floor(d / 1000), as the text "<h>h <m>m <s>s".
C32_UptimeParts ==
    response.fn = "getUptime" =>
        /\ response.diff >= 0
        /\ response.hours >= 0
        /\ response.minutes \in 0..59
        /\ response.seconds \in 0..59
        /\ response.hours * 3600 + response.minutes * 60 + response.seconds
             = response.diff \div 1000
        /\ response.text = ToString(response.hours) \o "h "
                             \o ToString(response.minutes) \o "m "
                             \o ToString(response.seconds) \o "s"

\* getUptime has been called 25 h 59 min 59.999 s after the start.
C32_Witness ==
    /\ response.fn = "getUptime"
    /\ response.diff = 93599999
    /\ response.text = "25h 59m 59s"

\* C33: in every successful measurement queryLatencyMs is the sum of the
\* ping, bulk and round-trip latencies and totalLatencyMs is the acquire
\* latency (connectLatencyMs or poolAcquireMs) plus queryLatencyMs; the
\* query latency runs from the end of the acquisition to the end of the
\* tenth round trip and so holds no acquisition time.
C33_QueryIsSumWithoutAcquire ==
    /\ [](\A k \in 1..Len(appended) :
            appended[k].success =>
                /\ appended[k].queryLatencyMs
                     = appended[k].pingLatencyMs
                       + appended[k].longQueryLatencyMs
                       + appended[k].multiRoundTripLatencyMs
                /\ appended[k].totalLatencyMs
                     = AcquireMs(appended[k]) + appended[k].queryLatencyMs)
    /\ [][\A c \in Cycles :
             CompletesWithSample(c) =>
                 Pushed.queryLatencyMs
                   = Ms(LastRoundTripTime(c) - t[c].acquireTime)]_vars

\* A successful measurement whose acquisition took time and whose query
\* latency is less than its total.
C33_Witness ==
    \E k \in 1..Len(appended) :
        /\ appended[k].success
        /\ AcquireMs(appended[k]) > 0
        /\ appended[k].queryLatencyMs > 0
        /\ appended[k].queryLatencyMs < appended[k].totalLatencyMs

\* The cycles whose runBenchmark has returned.
Completed == {c \in Cycles : pc[c] = "done"}

\* C34: the length of the buffer, as the readers find it, never decreases:
\* it is the number of completed cycles until that reaches the capacity, it
\* grows by exactly one in the step that completes a cycle while it is below
\* the capacity, once it is the capacity it is the capacity in every later
\* state, and /health and /metrics/history report that length.
C34_LengthNeverDecreases ==
    /\ [](Len(results) = IF Cardinality(Completed) < MaxResults
                         THEN Cardinality(Completed) ELSE MaxResults)
    /\ [][/\ Len(results') >= Len(results)
          /\ Len(results) = MaxResults => Len(results') = MaxResults
          /\ \A c \in Cycles :
                (pc[c] # "done" /\ pc'[c] = "done") =>
                    Len(results') = IF Len(results) < MaxResults
                                    THEN Len(results) + 1
                                    ELSE MaxResults
          /\ Completed' = Completed => Len(results') = Len(results)
          /\ (response' # response /\ response'.fn = "/health") =>
                response'.measurements = Len(results)
          /\ (response' # response /\ response'.fn = "/metrics/history") =>
                response'.totalResults = Len(results)]_vars

\* More cycles have completed than the buffer holds, and /health reports
\* the capacity as the number of measurements.
C34_Witness ==
    /\ Cardinality(Completed) > MaxResults
    /\ Len(results) = MaxResults
    /\ response.fn = "/health"
    /\ response.measurements = MaxResults

\* The clock of new Date() moves on by a millisecond; it is followed up to
\* MaxStamp.  It is a clock of its own, next to process.hrtime.
WallTick ==
    /\ wall < MaxStamp
    /\ wall' = wall + 1
    /\ UNCHANGED <<config, now, dbRows, response, t, db, boot, initConn,
                   armed, started, pc, i, conn, results, poolTotal, poolIdle,
                   unhandled, appended, clean>>

\* A server whose DATABASE_URL is set, next to a database that answers
\* every request, with a result or with an error.
OrderInit ==
    /\ Init
    /\ DATABASE_URL = "set"
    /\ db \in {"healthy", "failing"}

\* The server with its timer under a running clock: cycles overlap and
\* complete at different times.
OrderNext ==
    \/ ListenClient
    \/ ListenPool
    \/ InitPoolConnect
    \/ InitPoolQuery
    \/ InitPoolDone
    \/ TimerTick
    \/ \E c \in Cycles : CycleStep(c)
    \/ WallTick

OrderSpec == OrderInit /\ [][OrderNext]_vars

\* Cycle c returns in this step.
Completes(c) == pc[c] # "done" /\ pc'[c] = "done"

PhaseField ==
    [connect |-> "connectLatencyMs", poolAcquire |-> "poolAcquireMs",
     ping |-> "pingLatencyMs", longQuery |-> "longQueryLatencyMs",
     avgRoundTrip |-> "avgRoundTripMs", query |-> "queryLatencyMs",
     total |-> "totalLatencyMs"]

\* The values of field f in the Samples that buffer buf holds.
SampleValues(buf, f) ==
    {buf[k][f] : k \in {j \in 1..Len(buf) :
                           buf[j].success /\ f \in DOMAIN buf[j]}}

\* Statistics st are in order and are drawn from the values vals: min, p50,
\* p95, p99 and max are values of vals, written with two decimals, that
\* ascend in this order, and avg is a value from min to max.
OrderedWithin(st, vals) ==
    \E mn \in vals, mx \in vals :
        /\ st.min = Fixed2(mn)
        /\ st.max = Fixed2(mx)
        /\ \E a \in vals, b \in vals, c \in vals :
              /\ mn <= a /\ a <= b /\ b <= c /\ c <= mx
              /\ st.p50 = Fixed2(a)
              /\ st.p95 = Fixed2(b)
              /\ st.p99 = Fixed2(c)
        /\ \E v \in mn..mx : st.avg = Fixed2(v)

\* C36: for every phase whose statistics GET /metrics reports,
\* min <= p50 <= p95 <= p99 <= max and min <= avg <= max, and each of min,
\* max, p50, p95 and p99 is the value of that phase in a Sample that is in
\* the buffer at that moment: Failures and evicted entries add nothing.
C36_StatsOrderedFromSamples ==
    [][MetricsWithSample =>
          \A p \in DOMAIN PhaseField :
              response'.latency[p] # NULL =>
                  OrderedWithin(response'.latency[p],
                                SampleValues(results, PhaseField[p]))]_vars

\* GET /metrics has been answered on a full buffer of Samples with different
\* totals, after an earlier Sample had been evicted: min, avg and max of
\* the total differ from one another.
C36_Witness ==
    /\ response.fn = "/metrics"
    /\ Len(appended) > MaxResults
    /\ appended[1].success
    /\ response.successfulMeasurements = MaxResults
    /\ response.latency.total.min # response.latency.total.max
    /\ response.latency.total.avg # response.latency.total.min
    /\ response.latency.total.avg # response.latency.total.max
====
